---- MODULE Spec2Model ----
(***************************************************************************)
(* Model of be/src/connector/jdbc_connector.cpp: the JDBC data source      *)
(* (open / get_next / close over a JDBCScanner) and the query builder      *)
(* get_jdbc_sql.                                                           *)
(*                                                                         *)
(* The JDBCScanner and the JDBCDriverManager are collaborators whose code  *)
(* is outside this file: every answer they give (a Status, a row count, an *)
(* end-of-stream flag) is a nondeterministic input of the action that      *)
(* makes the call.                                                         *)
(***************************************************************************)
EXTENDS Integers, Sequences, FiniteSets

\* ------------------------------------------------------------------ bounds
MaxRows == 2        \* largest row count of one fetched chunk
MaxEmpties == 1     \* empty chunks in a row the scanner yields, any order of calls
MaxSkips == 2       \* empty chunks in a row the scanner yields, one scan
MaxCalls == 2       \* get_next calls per data source, any order of calls
MaxBatches == 3     \* get_next calls per data source, one scan
MaxScanners == 2    \* scanners one data source creates (opens that resolve a driver)
MaxCloses == 2      \* close calls per data source
MaxCols == 2        \* columns of a scan request
MaxFilters == 2     \* filters of a scan request
MaxLoopCalls == 2   \* get_next calls whose do-while is followed to its end
MaxPairOps == 3     \* calls made on two data sources together
MaxFetches == 2     \* downloads of one driver (a failed one may be tried again)

\* --------------------------------------------------------------- constants
NoLimit == -1       \* the "no limit" value tested by get_jdbc_sql

\* Data sources made by one provider; Solo is the one driven by Spec.
Sessions == {1, 2}
Solo == {1}

Nullptr == 0

\* the requests the query builder is tried on
Tables == {"t"}
ColumnNames == {"a", "b"}
FilterTexts == {"x>1", "y<2"}
Limits == {NoLimit, 0, 7, 10}

\* driver descriptors (name, url, checksum) of the catalog
Descriptors == {"d1", "d2"}

SeqsUpTo(S, n) == UNION {[1..k -> S] : k \in 0..n}

VARIABLES
    _scanner,    \* [s] 0 = nullptr, k = the k-th JDBCScanner this data source created
    _rows_read,  \* [s] the row counter
    pc,          \* [s] "idle" between calls, "fetch" inside the do-while of get_next
    eos,         \* [s] get_next's local `eos`
    chunk,       \* [s] (*chunk)->num_rows() of get_next's out-parameter
    last,        \* [s] the call last made and the Status it returned
    status,      \* [s] the Status the collaborator called last answered
    scanners,    \* [s] per JDBCScanner in the pool, in creation order: times it was closed
    crashed,     \* the process died on a null dereference
    calls,       \* [s] number of get_next calls made
    ncloses,     \* [s] number of close calls made
    empties,     \* [s] empty chunks discarded by the current get_next call
    fetches,     \* [s] _scanner->get_next calls made by the current get_next call
    produced,    \* [s] row counts of the chunks the scanner yielded without eos
    delivered,   \* [s] row counts of the chunks returned with Status::OK
    eofSeen,     \* [s] get_next has returned EndOfFile
    reused,      \* [s] a method was invoked on a scanner already closed
    trace,       \* [s] the collaborator calls the current or last call made, with their answers
    table, columns, filters, limit,   \* inputs of get_jdbc_sql
    oss,         \* what get_jdbc_sql wrote to its stream, piece by piece
    sql,         \* the query get_jdbc_sql returned last ("" before)
    drivers,     \* [d] the driver manager's entry for descriptor d
    desc,        \* [s] the driver descriptor of the table data source s scans
    driver_path  \* [s] scan_ctx.driver_path of the last scan context (<<>> before)

svars == <<_scanner, _rows_read, pc, eos, chunk, last, status, scanners, crashed,
           calls, ncloses, empties, fetches, produced, delivered, eofSeen, reused, trace>>
qvars == <<table, columns, filters, limit, oss, sql>>
dvars == <<drivers, desc, driver_path>>
vars == <<svars, qvars, dvars>>

\* ------------------------------------------------------------ query builder

Digits == <<"0", "1", "2", "3", "4", "5", "6", "7", "8", "9">>

RECURSIVE NatToStr(_)
NatToStr(n) == IF n < 10 THEN Digits[n + 1]
               ELSE NatToStr(n \div 10) \o Digits[(n % 10) + 1]

\* operator<<(int64_t)
IntToStr(n) == IF n < 0 THEN "-" \o NatToStr(0 - n) ELSE NatToStr(n)

\* the column loop: what each iteration writes to the stream
ColumnPieces(cols) ==
    [i \in 1..(3 * Len(cols)) |->
        LET c == (i + 2) \div 3  k == (i + 2) % 3
        IN  CASE k = 0 -> (IF c = 1 THEN "" ELSE ",")
              [] k = 1 -> " "
              [] OTHER -> cols[c]]

\* mutant: AND with a space on both sides
FilterPieces_spaced(fs) ==
    [i \in 1..(4 * Len(fs)) |->
        LET f == (i + 3) \div 4  k == (i + 3) % 4
        IN  CASE k = 0 -> (IF f = 1 THEN "" ELSE " AND ")
              [] k = 1 -> "("
              [] k = 2 -> fs[f]
              [] OTHER -> ")"]

\* the filter loop
FilterPieces(fs) ==
    [i \in 1..(4 * Len(fs)) |->
        LET f == (i + 3) \div 4  k == (i + 3) % 4
        IN  CASE k = 0 -> (IF f = 1 THEN "" ELSE " AND")
              [] k = 1 -> "("
              [] k = 2 -> fs[f]
              [] OTHER -> ")"]

WherePieces(fs) == IF fs # <<>> THEN <<" WHERE ">> \o FilterPieces(fs) ELSE <<>>

\* mutant: a limit of 0 taken for "no limit"
LimitPieces_positive(lim) == IF lim > 0 THEN <<" LIMIT ", IntToStr(lim)>> ELSE <<>>

LimitPieces(lim) == IF lim # NoLimit THEN <<" LIMIT ", IntToStr(lim)>> ELSE <<>>

\* everything get_jdbc_sql writes to the stream, in order
SqlPieces(t, cols, fs, lim) ==
    <<"SELECT">> \o ColumnPieces(cols) \o <<" FROM ", t>> \o WherePieces(fs) \o LimitPieces(lim)

RECURSIVE Str(_)
Str(ps) == IF ps = <<>> THEN "" ELSE Head(ps) \o Str(Tail(ps))

get_jdbc_sql(t, cols, fs, lim) == Str(SqlPieces(t, cols, fs, lim))

\* -------------------------------------------------------------- data source

Result(op, st) == [op |-> op, st |-> st]

\* one call on a collaborator and whether it answered OK
Did(call, ok) == [call |-> call, ok |-> ok]

\* mutants of the do-while condition: no loop at all; a one-row chunk skipped too
LoopContinues_never(e, n) == FALSE
LoopContinues_le1(e, n) == ~e /\ n <= 1

\* the condition of the do-while in get_next
LoopContinues(e, n) == ~e /\ n = 0

\* mutant of the counter update: counts chunks, not rows
Accumulate_chunks(r, n) == r + 1

\* _rows_read += (*chunk)->num_rows()
Accumulate(r, n) == r + n

\* mutant: the counter is one per class, not one per data source
AddRows_static(rr, s, n) == [t \in Sessions |-> Accumulate(rr[t], n)]

\* _rows_read is a member of the data source the call is made on
AddRows(rr, s, n) == [rr EXCEPT ![s] = Accumulate(@, n)]

\* the null test of close
CloseActs(sc) == sc # Nullptr

Closed(s, k) == k # Nullptr /\ scanners[s][k] > 0

SessionInit ==
    /\ _scanner = [s \in Sessions |-> Nullptr]
    /\ _rows_read = [s \in Sessions |-> 0]
    /\ pc = [s \in Sessions |-> "idle"]
    /\ eos = [s \in Sessions |-> FALSE]
    /\ chunk = [s \in Sessions |-> 0]
    /\ last = [s \in Sessions |-> Result("none", "OK")]
    /\ status = [s \in Sessions |-> "OK"]
    /\ scanners = [s \in Sessions |-> <<>>]
    /\ crashed = FALSE
    /\ calls = [s \in Sessions |-> 0]
    /\ ncloses = [s \in Sessions |-> 0]
    /\ empties = [s \in Sessions |-> 0]
    /\ fetches = [s \in Sessions |-> 0]
    /\ produced = [s \in Sessions |-> <<>>]
    /\ delivered = [s \in Sessions |-> <<>>]
    /\ eofSeen = [s \in Sessions |-> FALSE]
    /\ reused = [s \in Sessions |-> FALSE]
    /\ trace = [s \in Sessions |-> <<>>]

QueryIdle ==
    /\ table = "t" /\ columns = <<"a">> /\ filters = <<>> /\ limit = NoLimit
    /\ oss = <<>> /\ sql = ""

NoEntry == [st |-> "absent", gen |-> 0, fetches |-> 0, failed |-> 0, inflight |-> 0]

DriverIdle ==
    /\ drivers = [d \in Descriptors |-> NoEntry]
    /\ desc = [s \in Sessions |-> "d1"]
    /\ driver_path = [s \in Sessions |-> <<>>]

Init == SessionInit /\ QueryIdle /\ DriverIdle

\* mutant: the error of get_driver_location is not returned
ResolveFails_ignored(drv) == FALSE

\* if (!status.ok()) return status, after get_driver_location answered drv
ResolveFails(drv) == ~drv

\* mutant: the Status of _scanner->open is dropped
OpenReturns_ignored(opn) == "OK"

\* RETURN_IF_ERROR(_scanner->open(state)); return Status::OK()
OpenReturns(opn) == IF opn THEN "OK" ELSE "OpenError"

\* _create_scanner: the driver manager answers drv, the new scanner's open answers opn
create_scanner(s, drv, opn) ==
    IF ResolveFails(drv)
    THEN /\ status' = [status EXCEPT ![s] = "DriverError"]
         /\ trace' = [trace EXCEPT ![s] = <<Did("get_driver_location", drv)>>]
         /\ last' = [last EXCEPT ![s] = Result("open", "DriverError")]
         /\ UNCHANGED <<_scanner, scanners, oss, sql>>
    ELSE /\ Len(scanners[s]) < MaxScanners
         /\ status' = [status EXCEPT ![s] = IF ~drv THEN "DriverError"
                                             ELSE IF opn THEN "OK" ELSE "OpenError"]
         /\ oss' = SqlPieces(table, columns, filters, limit)
         /\ sql' = get_jdbc_sql(table, columns, filters, limit)     \* scan_ctx.sql
         /\ scanners' = [scanners EXCEPT ![s] = Append(@, 0)]
         /\ _scanner' = [_scanner EXCEPT ![s] = Len(scanners[s]) + 1]
         /\ trace' = [trace EXCEPT ![s] = <<Did("get_driver_location", drv),
                                             Did("get_jdbc_sql", TRUE),
                                             Did("scan_ctx", TRUE),
                                             Did("new JDBCScanner", TRUE),
                                             Did("open", opn)>>]
         /\ last' = [last EXCEPT ![s] = Result("open", OpenReturns(opn))]

Open(s) ==
    /\ ~crashed /\ pc[s] = "idle"
    /\ \E drv \in BOOLEAN, opn \in BOOLEAN : create_scanner(s, drv, opn)
    /\ UNCHANGED <<_rows_read, pc, eos, chunk, crashed, calls, ncloses, empties, fetches,
                   produced, delivered, eofSeen, reused>>
    /\ UNCHANGED <<table, columns, filters, limit>>
    /\ UNCHANGED dvars

\* mutant: close gives up when reset_jni_env fails
ClosesAfterReset_checked(jni) == jni

\* _scanner->reset_jni_env(); _scanner->close(state);
ClosesAfterReset(jni) == TRUE

Close(s) ==
    /\ ~crashed /\ pc[s] = "idle"
    /\ ncloses[s] < MaxCloses
    /\ ncloses' = [ncloses EXCEPT ![s] = @ + 1]
    /\ IF CloseActs(_scanner[s])
       THEN \E jni \in BOOLEAN :          \* the answer of reset_jni_env, not looked at
            /\ reused' = [reused EXCEPT ![s] = @ \/ Closed(s, _scanner[s])]
            /\ IF ClosesAfterReset(jni)
               THEN /\ scanners' = [scanners EXCEPT ![s][_scanner[s]] = @ + 1]
                    /\ trace' = [trace EXCEPT ![s] = <<Did("reset_jni_env", jni),
                                                        Did("close", TRUE)>>]
               ELSE /\ trace' = [trace EXCEPT ![s] = <<Did("reset_jni_env", jni)>>]
                    /\ UNCHANGED scanners
       ELSE /\ trace' = [trace EXCEPT ![s] = <<>>]
            /\ UNCHANGED <<scanners, reused>>
    /\ last' = [last EXCEPT ![s] = Result("close", "OK")]
    /\ UNCHANGED <<_scanner, _rows_read, pc, eos, chunk, status, crashed, calls, empties, fetches,
                   produced, delivered, eofSeen>>
    /\ UNCHANGED <<qvars, dvars>>

\* get_next on a data source whose _scanner is nullptr: the member call through the
\* null pointer is undefined; the build either faults here or runs on (GetNextCall)
GetNextNull(s) ==
    /\ ~crashed /\ pc[s] = "idle"
    /\ calls[s] < MaxCalls
    /\ _scanner[s] = Nullptr
    /\ crashed' = TRUE
    /\ calls' = [calls EXCEPT ![s] = @ + 1]
    /\ last' = [last EXCEPT ![s] = Result("get_next", "crash")]
    /\ trace' = [trace EXCEPT ![s] = <<>>]
    /\ UNCHANGED <<_scanner, _rows_read, pc, eos, chunk, status, scanners, ncloses, empties,
                   fetches, produced, delivered, eofSeen, reused>>
    /\ UNCHANGED <<qvars, dvars>>

\* mutant: the Status of reset_jni_env is dropped
ResetFails_ignored(jni) == FALSE

\* RETURN_IF_ERROR(_scanner->reset_jni_env())
ResetFails(jni) == ~jni

\* get_next up to the do-while: reset_jni_env answers jni
get_next_begin(s, budget) ==
    /\ ~crashed /\ pc[s] = "idle"
    /\ calls[s] < budget
    /\ calls' = [calls EXCEPT ![s] = @ + 1]
    /\ empties' = [empties EXCEPT ![s] = 0]
    /\ fetches' = [fetches EXCEPT ![s] = 0]
    /\ reused' = [reused EXCEPT ![s] = @ \/ Closed(s, _scanner[s])]
    /\ eos' = [eos EXCEPT ![s] = FALSE]
    /\ \E jni \in BOOLEAN :
         /\ trace' = [trace EXCEPT ![s] = <<Did("reset_jni_env", jni)>>]
         /\ IF ResetFails(jni)
            THEN /\ status' = [status EXCEPT ![s] = "JniError"]
                 /\ last' = [last EXCEPT ![s] = Result("get_next", "JniError")]
                 /\ UNCHANGED <<pc, chunk>>
            ELSE /\ status' = [status EXCEPT ![s] = IF jni THEN "OK" ELSE "JniError"]
                 /\ chunk' = [chunk EXCEPT ![s] = 0]
                 /\ pc' = [pc EXCEPT ![s] = "fetch"]
                 /\ last' = [last EXCEPT ![s] = Result("get_next", "pending")]
    /\ UNCHANGED <<_scanner, _rows_read, scanners, crashed, ncloses, produced, delivered, eofSeen>>
    /\ UNCHANGED <<qvars, dvars>>

GetNextCall(s) == get_next_begin(s, MaxCalls)

\* mutant: a failed fetch is tried again
FetchOutcome_retry(ok, e, n) ==
    IF ~ok THEN "again"
    ELSE IF LoopContinues(e, n) THEN "again"
    ELSE IF e THEN "eof"
    ELSE "ok"

\* what get_next does with one answer of _scanner->get_next: Status ok, eos e, n rows
FetchOutcome(ok, e, n) ==
    IF ~ok THEN "error"
    ELSE IF LoopContinues(e, n) THEN "again"
    ELSE IF e THEN "eof"
    ELSE "ok"

\* one iteration of the do-while and, when the loop ends, the rest of get_next
fetch_step(s, skips) ==
    /\ ~crashed /\ pc[s] = "fetch"
    /\ \E ok \in BOOLEAN, n \in 0..MaxRows, e \in BOOLEAN :
        /\ (ok /\ ~e /\ n = 0) => empties[s] < skips
        /\ ~ok => (n = 0 /\ ~e)       \* a failed fetch carries a Status only
        /\ fetches' = [fetches EXCEPT ![s] = @ + 1]
        /\ reused' = [reused EXCEPT ![s] = @ \/ Closed(s, _scanner[s])]
        /\ status' = [status EXCEPT ![s] = IF ok THEN "OK" ELSE "ReadError"]
        /\ trace' = [trace EXCEPT ![s] = Append(@, Did("get_next", ok))]
        /\ IF ok
           THEN /\ eos' = [eos EXCEPT ![s] = e]
                /\ chunk' = [chunk EXCEPT ![s] = n]
                /\ produced' = [produced EXCEPT ![s] = IF e THEN @ ELSE Append(@, n)]
           ELSE UNCHANGED <<eos, chunk, produced>>
        /\ LET out == FetchOutcome(ok, e, n) IN
           CASE out = "error" ->
                  /\ last' = [last EXCEPT ![s] = Result("get_next", "ReadError")]
                  /\ pc' = [pc EXCEPT ![s] = "idle"]
                  /\ UNCHANGED <<_rows_read, empties, delivered, eofSeen>>
             [] out = "again" ->
                  /\ empties' = [empties EXCEPT ![s] = @ + 1]
                  /\ UNCHANGED <<pc, last, _rows_read, delivered, eofSeen>>
             [] out = "eof" ->
                  /\ last' = [last EXCEPT ![s] = Result("get_next", "EndOfFile")]
                  /\ pc' = [pc EXCEPT ![s] = "idle"]
                  /\ eofSeen' = [eofSeen EXCEPT ![s] = TRUE]
                  /\ UNCHANGED <<_rows_read, empties, delivered>>
             [] OTHER ->
                  /\ _rows_read' = AddRows(_rows_read, s, n)
                  /\ delivered' = [delivered EXCEPT ![s] = Append(@, n)]
                  /\ last' = [last EXCEPT ![s] = Result("get_next", "OK")]
                  /\ pc' = [pc EXCEPT ![s] = "idle"]
                  /\ UNCHANGED <<empties, eofSeen>>
    /\ UNCHANGED <<_scanner, scanners, crashed, calls, ncloses>>
    /\ UNCHANGED <<qvars, dvars>>

Fetch(s) == fetch_step(s, MaxEmpties)

\* ----------------------------------------------------------- specifications

\* Any order of calls on one data source.
Next ==
    \/ \E s \in Solo : Open(s)
    \/ \E s \in Solo : Close(s)
    \/ \E s \in Solo : GetNextNull(s)
    \/ \E s \in Solo : GetNextCall(s)
    \/ \E s \in Solo : Fetch(s)

Spec == Init /\ [][Next]_vars

\* One scan: open until a scanner is open, then get_next and close in any order.
ScanOpen(s) == _scanner[s] = Nullptr /\ Open(s) /\ last'[s].st # "OpenError"

ScanGetNext(s) == _scanner[s] # Nullptr /\ get_next_begin(s, MaxBatches)

ScanFetch(s) == fetch_step(s, MaxSkips)

ScanNext ==
    \/ \E s \in Solo : ScanOpen(s)
    \/ \E s \in Solo : Close(s)
    \/ \E s \in Solo : ScanGetNext(s)
    \/ \E s \in Solo : ScanFetch(s)

ScanSpec == Init /\ [][ScanNext]_vars

\* The do-while of get_next, run to its end: the thread inside get_next keeps
\* running, and each _scanner->get_next returns, so a pending fetch is taken.
LoopGetNext(s) == _scanner[s] # Nullptr /\ get_next_begin(s, MaxLoopCalls)

LoopFetch(s) == fetch_step(s, MaxSkips)

LoopNext ==
    \/ \E s \in Solo : ScanOpen(s)
    \/ \E s \in Solo : LoopGetNext(s)
    \/ \E s \in Solo : LoopFetch(s)

LoopSpec == Init /\ [][LoopNext]_vars /\ \A s \in Solo : WF_vars(LoopFetch(s))

\* Two data sources of one provider, their calls interleaved in any order.
PairOps == calls[1] + calls[2] + ncloses[1] + ncloses[2] + Len(scanners[1]) + Len(scanners[2])

PairOpen(s) == PairOps < MaxPairOps /\ Open(s)

PairClose(s) == PairOps < MaxPairOps /\ Close(s)

PairGetNextNull(s) == PairOps < MaxPairOps /\ GetNextNull(s)

PairGetNext(s) == PairOps < MaxPairOps /\ GetNextCall(s)

PairNext ==
    \/ \E s \in Sessions : PairOpen(s)
    \/ \E s \in Sessions : PairClose(s)
    \/ \E s \in Sessions : PairGetNextNull(s)
    \/ \E s \in Sessions : PairGetNext(s)
    \/ \E s \in Sessions : Fetch(s)

PairSpec == Init /\ [][PairNext]_vars

\* The query builder alone, over every request within the bounds.
Build ==
    /\ sql = ""
    /\ oss' = SqlPieces(table, columns, filters, limit)
    /\ sql' = get_jdbc_sql(table, columns, filters, limit)
    /\ UNCHANGED <<table, columns, filters, limit>>
    /\ UNCHANGED <<svars, dvars>>

SqlInit ==
    /\ SessionInit
    /\ table \in Tables
    /\ columns \in SeqsUpTo(ColumnNames, MaxCols)
    /\ filters \in SeqsUpTo(FilterTexts, MaxFilters)
    /\ limit \in Limits
    /\ oss = <<>> /\ sql = ""
    /\ DriverIdle

SqlSpec == SqlInit /\ [][Build]_vars

\* The driver manager behind get_driver_location, and opens that go through it:
\* open is split at the call, so that several data sources can be inside it at once.

\* mutant: a download is started although one is already under way
StartsFetch_always(st) == st # "ready"

\* a caller finds no artifact and no download under way
StartsFetch(st) == st \in {"absent", "failed"}

\* open up to the call of get_driver_location (lines 58-106)
ResolveCall(s) ==
    /\ ~crashed /\ pc[s] = "idle"
    /\ Len(scanners[s]) < MaxScanners
    /\ pc' = [pc EXCEPT ![s] = "resolve"]
    /\ last' = [last EXCEPT ![s] = Result("open", "pending")]
    /\ LET d == desc[s] IN
         IF StartsFetch(drivers[d].st)
         THEN drivers' = [drivers EXCEPT ![d].st = "fetching",
                                         ![d].fetches = @ + 1,
                                         ![d].inflight = @ + 1]
         ELSE UNCHANGED drivers
    /\ UNCHANGED <<_scanner, _rows_read, eos, chunk, status, scanners, crashed, calls, ncloses,
                   empties, fetches, produced, delivered, eofSeen, reused, trace>>
    /\ UNCHANGED <<qvars, desc, driver_path>>

\* a download ends: verified and stored, or failed
FetchDone(d) ==
    /\ drivers[d].inflight > 0
    /\ \E ok \in BOOLEAN :
         /\ ~ok => drivers[d].fetches < MaxFetches
         /\ drivers' = [drivers EXCEPT ![d].inflight = @ - 1,
                                         ![d].st = IF ok THEN "ready" ELSE "failed",
                                         ![d].gen = IF ok THEN drivers[d].fetches ELSE @,
                                         ![d].failed = IF ok THEN @ ELSE @ + 1]
    /\ UNCHANGED <<svars, qvars, desc, driver_path>>

\* get_driver_location returns and open goes on (lines 107-123, 63)
ResolveReturn(s) ==
    /\ ~crashed /\ pc[s] = "resolve"
    /\ drivers[desc[s]].st \in {"ready", "failed"}
    /\ pc' = [pc EXCEPT ![s] = "idle"]
    /\ LET drv == drivers[desc[s]].st = "ready" IN
         /\ \E opn \in BOOLEAN : create_scanner(s, drv, opn)
         /\ driver_path' = [driver_path EXCEPT ![s] =
                                IF ResolveFails(drv) THEN @
                                ELSE <<desc[s], drivers[desc[s]].gen>>]
    /\ UNCHANGED <<_rows_read, eos, chunk, crashed, calls, ncloses, empties, fetches,
                   produced, delivered, eofSeen, reused>>
    /\ UNCHANGED <<table, columns, filters, limit, drivers, desc>>

DriverInit ==
    /\ SessionInit /\ QueryIdle
    /\ drivers = [d \in Descriptors |-> NoEntry]
    /\ desc \in [Sessions -> Descriptors]
    /\ driver_path = [s \in Sessions |-> <<>>]

DriverNext ==
    \/ \E s \in Sessions : ResolveCall(s)
    \/ \E d \in Descriptors : FetchDone(d)
    \/ \E s \in Sessions : ResolveReturn(s)

DriverSpec == DriverInit /\ [][DriverNext]_vars

\* ------------------------------------------------------------------ claims

Returned(s, st) == pc[s] = "idle" /\ last[s] = Result("get_next", st)

NonEmpty(seq) == SelectSeq(seq, LAMBDA n : n > 0)

RECURSIVE Sum(_)
Sum(seq) == IF seq = <<>> THEN 0 ELSE Head(seq) + Sum(Tail(seq))

\* C1: a get_next that returns OK hands the caller a chunk of at least one row,
\* whatever the scanner answered and in whatever order the calls were made.
C1_OkBatchHasRows ==
    \A s \in Sessions : Returned(s, "OK") => chunk[s] >= 1

\* a call that discarded an empty chunk and then returned OK
C1_Witness ==
    \E s \in Sessions : Returned(s, "OK") /\ empties[s] >= 1 /\ chunk[s] >= 1

\* C2: the chunks returned with OK are exactly the non-empty chunks the scanner
\* yielded, in the scanner's order, none repeated or dropped; and get_next returns
\* EndOfFile exactly when the scanner set eos.
C2_DeliversNonEmptyInOrder ==
    \A s \in Sessions :
        /\ delivered[s] = NonEmpty(produced[s])
        /\ (pc[s] = "idle" /\ last[s].op = "get_next" /\ last[s].st \in {"OK", "EndOfFile"})
              => (eos[s] <=> last[s].st = "EndOfFile")

\* the scanner yielded 0,0,2,0,1,0 and then its end: the caller got 2, 1, EndOfFile
C2_Witness ==
    \E s \in Sessions :
        /\ produced[s] = <<0, 0, 2, 0, 1, 0>>
        /\ delivered[s] = <<2, 1>>
        /\ Returned(s, "EndOfFile")

\* C3: _rows_read is the sum of the row counts of the chunks returned with OK (0
\* before the first); it never decreases and changes only in the step in which
\* get_next returns OK, by that chunk's row count; open, close, EndOfFile and error
\* returns leave it alone.
C3_RowsReadIsSumOfDelivered ==
    /\ [](\A s \in Sessions : _rows_read[s] = Sum(delivered[s]))
    /\ [][\A s \in Sessions :
            /\ _rows_read'[s] >= _rows_read[s]
            /\ _rows_read'[s] # _rows_read[s] =>
                  /\ pc[s] = "fetch" /\ Returned(s, "OK")'
                  /\ chunk'[s] >= 1
                  /\ _rows_read'[s] = _rows_read[s] + chunk'[s]
            /\ (last'[s] # last[s] /\ ~Returned(s, "OK")') => _rows_read'[s] = _rows_read[s]
       ]_vars

\* two chunks of 2 rows and 1 row were returned
C3_Witness ==
    \E s \in Sessions : delivered[s] = <<2, 1>> /\ _rows_read[s] = 3

\* C4: close may be called any number of times, also when open never succeeded:
\* no scanner is released (closed) more than once, and a close on a data source
\* that never created a scanner touches nothing.
C4_ReleasedAtMostOnce ==
    /\ [](\A s \in Sessions : \A k \in 1..Len(scanners[s]) : scanners[s][k] <= 1)
    /\ [][\A s \in Sessions :
            (_scanner[s] = Nullptr /\ ncloses'[s] # ncloses[s])
               => (scanners'[s] = scanners[s] /\ reused'[s] = reused[s])]_vars

\* C5: once get_next has returned EndOfFile, no later get_next returns a chunk and
\* the row counter never changes again.
C5_EndOfFileIsFinal ==
    [][\A s \in Sessions :
          eofSeen[s] => (~Returned(s, "OK")' /\ _rows_read'[s] = _rows_read[s])]_vars

\* C6: an open whose driver resolution fails returns that error, creates no
\* scanner and builds no query, and leaves _scanner and _rows_read as they were;
\* on a data source that had no scanner, the close that follows touches no scanner,
\* and the counter of a data source not yet read from is 0.
C6_DriverFailureLeavesSessionClean ==
    /\ [][\A s \in Sessions :
            (last'[s].op = "open" /\ status'[s] = "DriverError" /\ last'[s] # last[s])
               => /\ last'[s].st = "DriverError"
                  /\ scanners'[s] = scanners[s] /\ _scanner'[s] = _scanner[s]
                  /\ _rows_read'[s] = _rows_read[s]
                  /\ sql' = sql]_vars
    /\ [][\A s \in Sessions :
            (last[s] = Result("open", "DriverError") /\ _scanner[s] = Nullptr
                /\ ncloses'[s] # ncloses[s])
               => /\ last'[s] = Result("close", "OK")
                  /\ scanners'[s] = scanners[s] /\ reused'[s] = reused[s]
                  /\ _scanner'[s] = Nullptr /\ _rows_read'[s] = _rows_read[s]]_vars
    /\ [](\A s \in Sessions :
            (last[s] = Result("open", "DriverError") /\ calls[s] = 0)
               => (_rows_read[s] = 0 /\ (scanners[s] = <<>> => _scanner[s] = Nullptr)))

\* the first open of a data source failed in driver resolution
C6_Witness ==
    \E s \in Sessions :
        /\ last[s] = Result("open", "DriverError") /\ status[s] = "DriverError"
        /\ scanners[s] = <<>> /\ _scanner[s] = Nullptr /\ _rows_read[s] = 0

\* C7: when a fetch fails inside get_next, also after empty chunks were discarded
\* in the same call, get_next returns that error at once (no further fetch), hands
\* over no chunk and leaves _rows_read at the sum of the chunks returned before;
\* a close that follows closes the scanner.
C7_ReadErrorAborts ==
    /\ [][\A s \in Sessions :
            (fetches'[s] = fetches[s] + 1 /\ status'[s] = "ReadError")
               => /\ Returned(s, "ReadError")'
                  /\ fetches'[s] = empties'[s] + 1
                  /\ delivered'[s] = delivered[s]
                  /\ _rows_read'[s] = _rows_read[s]]_vars
    /\ [](\A s \in Sessions :
            Returned(s, "ReadError") => _rows_read[s] = Sum(delivered[s]))
    /\ [][\A s \in Sessions :
            (Returned(s, "ReadError") /\ ncloses'[s] # ncloses[s] /\ _scanner[s] # Nullptr)
               => /\ last'[s] = Result("close", "OK")
                  /\ scanners'[s][_scanner[s]] = scanners[s][_scanner[s]] + 1]_vars

\* a chunk was returned, then a call discarded an empty chunk and its next fetch failed
C7_Witness ==
    \E s \in Sessions :
        /\ Returned(s, "ReadError") /\ empties[s] >= 1
        /\ delivered[s] # <<>> /\ _rows_read[s] >= 1

\* C8: no method is invoked on a scanner after close has closed it.
C8_NoUseAfterClose ==
    \A s \in Sessions : ~reused[s]

Count(q, x) == Cardinality({i \in DOMAIN q : q[i] = x})

Pos(q, x) == CHOOSE i \in DOMAIN q : q[i] = x

RECURSIVE AndJoined(_)
AndJoined(fs) ==
    IF Len(fs) = 1 THEN "(" \o fs[1] \o ")"
    ELSE AndJoined(SubSeq(fs, 1, Len(fs) - 1)) \o " AND" \o "(" \o fs[Len(fs)] \o ")"

RECURSIVE CommaList(_)
CommaList(cols) ==
    IF cols = <<>> THEN ""
    ELSE IF Len(cols) = 1 THEN " " \o cols[1]
    ELSE CommaList(SubSeq(cols, 1, Len(cols) - 1)) \o ", " \o cols[Len(cols)]

\* C9: the query built has one SELECT, first; then one FROM followed by the table;
\* then one WHERE exactly when there are filters, followed by every filter in
\* parentheses, in list order, joined by AND; then one LIMIT exactly when the limit
\* is not -1, followed by the limit, last of all.
C9_QueryShape ==
    sql # "" =>
        LET q == oss
            n == Len(q)
            hasWhere == filters # <<>>
            hasLimit == limit # NoLimit
            whereEnd == IF hasLimit THEN n - 2 ELSE n
        IN  /\ sql = Str(q)
            /\ q[1] = "SELECT" /\ Count(q, "SELECT") = 1
            /\ Count(q, " FROM ") = 1 /\ q[Pos(q, " FROM ") + 1] = table
            /\ Count(q, " WHERE ") = (IF hasWhere THEN 1 ELSE 0)
            /\ Count(q, " LIMIT ") = (IF hasLimit THEN 1 ELSE 0)
            /\ hasWhere =>
                  /\ Pos(q, " WHERE ") = Pos(q, " FROM ") + 2
                  /\ Str(SubSeq(q, Pos(q, " WHERE ") + 1, whereEnd)) = AndJoined(filters)
            /\ hasLimit =>
                  /\ Pos(q, " LIMIT ") = n - 1 /\ q[n] = IntToStr(limit)
                  /\ Pos(q, " LIMIT ") > Pos(q, " FROM ") + 1
            /\ ~hasWhere => whereEnd = Pos(q, " FROM ") + 1

\* a request with two filters and a limit was built
C9_Witness ==
    /\ sql # "" /\ Len(filters) = 2 /\ limit = 7 /\ Len(columns) = 2
    /\ Count(oss, " WHERE ") = 1 /\ Count(oss, " LIMIT ") = 1

\* C10: the exact text: "SELECT", each column preceded by a space and separated by
\* a comma, " FROM " and the table, " WHERE " and the filters as "(f)" joined by
\* " AND" with nothing before the next parenthesis, " LIMIT " and the limit in
\* decimal; so ("t", [a, b], [], -1) gives "SELECT a, b FROM t" and
\* ("t", [a], [x>1, y<2], 10) gives "SELECT a FROM t WHERE (x>1) AND(y<2) LIMIT 10".
C10_ExactText ==
    sql # "" =>
        /\ sql = "SELECT" \o CommaList(columns) \o " FROM " \o table
                   \o (IF filters = <<>> THEN "" ELSE " WHERE " \o AndJoined(filters))
                   \o (IF limit = NoLimit THEN "" ELSE " LIMIT " \o IntToStr(limit))
        /\ (table = "t" /\ columns = <<"a", "b">> /\ filters = <<>> /\ limit = NoLimit)
              => sql = "SELECT a, b FROM t"
        /\ (table = "t" /\ columns = <<"a">> /\ filters = <<"x>1", "y<2">> /\ limit = 10)
              => sql = "SELECT a FROM t WHERE (x>1) AND(y<2) LIMIT 10"

\* the second example was built
C10_Witness ==
    /\ columns = <<"a">> /\ filters = <<"x>1", "y<2">> /\ limit = 10
    /\ sql = "SELECT a FROM t WHERE (x>1) AND(y<2) LIMIT 10"

\* C11: data sources opening at once with the same driver descriptor cause one
\* download of the artifact: no two downloads of a descriptor are ever under way
\* together, an artifact once stored is not downloaded again, and all data sources
\* opened with one descriptor are given the same local path.
C11_SingleFlight ==
    /\ \A d \in Descriptors :
          /\ drivers[d].inflight <= 1
          /\ drivers[d].fetches <= drivers[d].failed + 1
    /\ \A s, t \in Sessions :
          (desc[s] = desc[t] /\ driver_path[s] # <<>> /\ driver_path[t] # <<>>)
             => driver_path[s] = driver_path[t]

\* both data sources were inside get_driver_location for one descriptor: the one
\* download ended, the first was given its path and the second is about to be
C11_Witness ==
    /\ desc[1] = desc[2]
    /\ pc[2] = "resolve" /\ drivers[desc[2]].st = "ready"
    /\ drivers[desc[1]].fetches = 1 /\ drivers[desc[1]].failed = 0
    /\ driver_path[1] = <<desc[1], 1>> /\ driver_path[2] = <<>>

\* everything data source s holds or has observed
View(s) ==
    <<_scanner[s], _rows_read[s], pc[s], eos[s], chunk[s], last[s], status[s], scanners[s],
      calls[s], ncloses[s], empties[s], fetches[s], produced[s], delivered[s], eofSeen[s],
      reused[s], trace[s], driver_path[s]>>

\* C12: two data sources of one provider are independent: every step is a step of
\* one data source and leaves the other's counter, scanner, pool and position as
\* they were; each _scanner points into its own pool; the provider's scan node is
\* never written.
C12_SessionsIndependent ==
    /\ [][\E t \in Sessions : \A s \in Sessions \ {t} : View(s)' = View(s)]_vars
    /\ [][<<table, columns, filters, limit, desc>>' = <<table, columns, filters, limit, desc>>]_vars
    /\ [](\A s \in Sessions : _scanner[s] \in 0..Len(scanners[s]))

\* one data source has delivered rows while the other was opened in between
C12_Witness ==
    /\ _rows_read[1] >= 1 /\ scanners[1] = <<0>> /\ last[1] = Result("get_next", "OK")
    /\ _rows_read[2] = 0 /\ scanners[2] = <<0>> /\ last[2] = Result("open", "OK")

\* the calls of a trace, without their answers
CallsOf(tr) == [i \in 1..Len(tr) |-> tr[i].call]

\* the steps of a completed open, in the order of the code
OpenSteps == <<"get_driver_location", "get_jdbc_sql", "scan_ctx", "new JDBCScanner", "open">>

\* C13: open resolves the driver, builds the query, fills the scan context, then
\* creates and opens the scanner, in that order, and stops after a failed driver
\* resolution; it returns OK exactly when the resolution and the scanner's open
\* both succeeded, otherwise an error that marks the session failed; open itself
\* delivers no batch and leaves the row counter alone (0 on a fresh session).
C13_OpenOrderAndResult ==
    /\ [](\A s \in Sessions : last[s].op = "open" =>
            /\ CallsOf(trace[s]) \in {SubSeq(OpenSteps, 1, 1), OpenSteps}
            /\ (Len(trace[s]) = 1) <=> ~trace[s][1].ok
            /\ (last[s].st = "OK") <=> (Len(trace[s]) = Len(OpenSteps)
                                         /\ trace[s][1].ok /\ trace[s][Len(OpenSteps)].ok)
            /\ (last[s].st # "OK") <=> (status[s] \in {"DriverError", "OpenError"})
            /\ (last[s].st # "OK" /\ calls[s] = 0) =>
                  (_rows_read[s] = 0 /\ delivered[s] = <<>>))
    /\ [][\A s \in Sessions : last'[s].op = "open" =>
            (_rows_read'[s] = _rows_read[s] /\ delivered'[s] = delivered[s])]_vars

\* the scanner was created and its open failed; nothing has been read
C13_Witness ==
    /\ last[1] = Result("open", "OpenError")
    /\ Len(trace[1]) = Len(OpenSteps) /\ trace[1][1].ok /\ ~trace[1][Len(OpenSteps)].ok
    /\ _scanner[1] # Nullptr /\ _rows_read[1] = 0

\* C14: after an open whose scanner was created but failed to open, the next
\* close completes normally and closes that scanner, whatever reset_jni_env
\* answers: the data source still points at it, and its close count goes from
\* 0 to 1.
C14_FailedOpenIsCleanedUp ==
    [][\A s \in Sessions :
          (last[s] = Result("open", "OpenError") /\ last'[s].op = "close") =>
             /\ _scanner[s] = Len(scanners[s])
             /\ scanners[s][_scanner[s]] = 0
             /\ scanners'[s][_scanner[s]] = 1
             /\ last'[s].st = "OK" /\ ~crashed']_vars

\* open failed in the scanner's open, then close ran once, its reset failing
C14_Witness ==
    /\ status[1] = "OpenError" /\ last[1] = Result("close", "OK")
    /\ calls[1] = 0 /\ ncloses[1] = 1
    /\ scanners[1] = <<1>>
    /\ trace[1] = <<Did("reset_jni_env", FALSE), Did("close", TRUE)>>

\* C15: a data source creates at most one scanner, however often open is called,
\* and the scanner held after a successful open is never replaced.
C15_OneScannerPerSession ==
    /\ [](\A s \in Sessions : Len(scanners[s]) <= 1)
    /\ [][\A s \in Sessions : _scanner[s] # Nullptr => _scanner'[s] = _scanner[s]]_vars

\* C16: at end of data every row the scanner yielded has been delivered and
\* counted, the rows that came with the eos flag included.
C16_NoRowLost ==
    \A s \in Sessions :
        Returned(s, "EndOfFile") =>
            /\ _rows_read[s] = Sum(produced[s]) + chunk[s]
            /\ Sum(delivered[s]) = Sum(produced[s]) + chunk[s]

\* C17: a get_next that reached its do-while returns; the loop goes round again
\* only after a successful fetch of zero rows without eos, and leaves at the first
\* fetch that fails, sets eos or brings rows: one fetch per skipped chunk and one
\* more.
C17_LoopTerminates ==
    /\ \A s \in Solo : (pc[s] = "fetch") ~> (pc[s] = "idle")
    /\ [][\A s \in Solo : (pc[s] = "fetch" /\ fetches'[s] # fetches[s]) =>
            /\ fetches'[s] = fetches[s] + 1
            /\ (pc'[s] = "fetch") <=> (status'[s] = "OK" /\ ~eos'[s] /\ chunk'[s] = 0)
            /\ (pc'[s] = "fetch") <=> (empties'[s] = empties[s] + 1)
            /\ (pc'[s] = "idle") <=> (empties'[s] = empties[s])]_vars
    /\ [](\A s \in Solo : (\E st \in {"OK", "EndOfFile", "ReadError"} : Returned(s, st)) =>
            fetches[s] = empties[s] + 1)

\* two empty chunks were skipped and the third fetch ended the call with rows
C17_Witness ==
    /\ Returned(1, "OK") /\ empties[1] = 2 /\ fetches[1] = 3 /\ chunk[1] > 0

\* C18: get_next on a data source that has no scanner returns an error to the
\* caller without touching a scanner, and leaves the row counter unchanged.
C18_AbsentScannerIsAnError ==
    [][\A s \in Sessions : (_scanner[s] = Nullptr /\ calls'[s] # calls[s]) =>
          /\ ~crashed' /\ pc'[s] = "idle"
          /\ last'[s].op = "get_next" /\ last'[s].st \notin {"OK", "EndOfFile", "pending", "crash"}
          /\ trace'[s] = <<>>
          /\ _rows_read'[s] = _rows_read[s]]_vars

\* C19: get_next on a scanner first calls reset_jni_env and fetches only after
\* it; when the reset fails the call returns that error with no fetch made and
\* the counter and the batches as they were; close calls reset_jni_env and then
\* closes the scanner, whatever the reset answered.
C19_ResetPrecedesUse ==
    /\ [][\A s \in Sessions : (_scanner[s] # Nullptr /\ calls'[s] # calls[s]) =>
            /\ CallsOf(trace'[s]) = <<"reset_jni_env">> /\ fetches'[s] = 0
            /\ ~trace'[s][1].ok =>
                  /\ pc'[s] = "idle" /\ last'[s] = Result("get_next", "JniError")
                  /\ _rows_read'[s] = _rows_read[s]
                  /\ produced'[s] = produced[s] /\ delivered'[s] = delivered[s]]_vars
    /\ [](\A s \in Sessions : (_scanner[s] # Nullptr /\ last[s].op = "get_next") =>
            /\ Len(trace[s]) >= 1 /\ trace[s][1].call = "reset_jni_env"
            /\ Len(trace[s]) = fetches[s] + 1
            /\ \A i \in 2..Len(trace[s]) : trace[s][i].call = "get_next" /\ trace[s][1].ok)
    /\ [][\A s \in Sessions : (_scanner[s] # Nullptr /\ ncloses'[s] # ncloses[s]) =>
            /\ CallsOf(trace'[s]) = <<"reset_jni_env", "close">>
            /\ scanners'[s][_scanner[s]] = scanners[s][_scanner[s]] + 1]_vars

\* rows were delivered, then a get_next stopped at a failed reset without a fetch
C19_Witness ==
    /\ Returned(1, "JniError") /\ _scanner[1] # Nullptr
    /\ trace[1] = <<Did("reset_jni_env", FALSE)>> /\ fetches[1] = 0
    /\ _rows_read[1] > 0 /\ _rows_read[1] = Sum(delivered[1])

====
